---- MODULE Spec2Model ----
(***************************************************************************)
(* One run of review.py: main fetches the pull-request diff, the external *)
(* documents and the repository files, decides whether to abort, merges   *)
(* the recorded errors into the repository context, calls the model and   *)
(* prints the result.                                                      *)
(*                                                                         *)
(* Text is a sequence of chunks.  A chunk is a one-character string where *)
(* the code looks inside the text (strip, split, path handling) and a     *)
(* longer string for a literal piece of an f-string or for text the       *)
(* environment supplies (a document body, a stderr stream).  String       *)
(* concatenation is \o.  Values of the environment (command result, HTTP  *)
(* outcomes, directory listing order, file readability, credential, model *)
(* outcome) and of the command line are drawn at the step that reads them.*)
(***************************************************************************)
EXTENDS Naturals, Sequences, FiniteSets

\* ------------------------------------------------------------------ bounds

\* most comma-separated entries in --external-refs
MaxUrls == 2
\* most comma-separated entries in --arklib-refs
MaxPaths == 2

\* ------------------------------------------------------------------ text

IsSpace(c) == c \in {" ", "\n"}

RECURSIVE LStrip(_)
LStrip(s) == IF s # <<>> /\ IsSpace(Head(s)) THEN LStrip(Tail(s)) ELSE s

RECURSIVE RStrip(_)
RStrip(s) ==
  IF s # <<>> /\ IsSpace(s[Len(s)]) THEN RStrip(SubSeq(s, 1, Len(s) - 1)) ELSE s

\* str.strip()
Strip(s) == RStrip(LStrip(s))

\* str.split(','): the segments between the commas, empty ones kept
RECURSIVE SplitFrom(_, _, _)
SplitFrom(s, i, cur) ==
  IF i > Len(s) THEN <<cur>>
  ELSE IF s[i] = "," THEN <<cur>> \o SplitFrom(s, i + 1, <<>>)
  ELSE SplitFrom(s, i + 1, Append(cur, s[i]))

Split(s) == SplitFrom(s, 1, <<>>)

\* [x.strip() for x in s.split(',')]
StripAll(segs) == [i \in 1..Len(segs) |-> Strip(segs[i])]

\* "\n".join(lines)
RECURSIVE JoinLines(_)
JoinLines(lines) ==
  IF lines = <<>> THEN <<>>
  ELSE IF Len(lines) = 1 THEN lines[1]
  ELSE lines[1] \o <<"\n">> \o JoinLines(Tail(lines))

\* t occurs in s as a contiguous run of chunks
Contains(s, t) ==
  \/ t = <<>>
  \/ \E i \in 1..Len(s) :
       /\ s[i] = t[1]
       /\ i + Len(t) - 1 <= Len(s)
       /\ SubSeq(s, i, i + Len(t) - 1) = t

StartsWith(s, t) == Len(t) <= Len(s) /\ SubSeq(s, 1, Len(t)) = t

\* the non-empty elements of a sequence, in order
RECURSIVE NonEmpty(_)
NonEmpty(segs) ==
  IF segs = <<>> THEN <<>>
  ELSE IF Head(segs) = <<>> THEN NonEmpty(Tail(segs))
  ELSE <<Head(segs)>> \o NonEmpty(Tail(segs))

\* ------------------------------------------------------------------ get_pr_diff

PrNumber == <<"4", "2">>

EmptyDiffError == <<"Could not retrieve PR diff or diff is empty.">>

\* the failure message without the captured stderr
DiffFailedError_NoStderr(pr, stderr) == <<"Failed to fetch PR diff for PR #">> \o pr

DiffFailedError(pr, stderr) ==
  <<"Failed to fetch PR diff for PR #">> \o pr \o <<": ">> \o stderr

\* what `gh pr diff` can do: exit 0 with some output, exit non-zero with some
\* stderr (CalledProcessError), or not start at all (OSError, not caught)
CmdResults ==
  [kind : {"ok"}, stdout : {<<>>, <<" ", "\n">>, <<"+x", "\n">>}, stderr : {<<>>}]
    \cup [kind : {"nonzero"}, stdout : {<<>>}, stderr : {<<"no such PR", "\n">>, <<>>}]
    \cup [kind : {"oserror"}, stdout : {<<>>}, stderr : {<<>>}]

NoCmd == [kind |-> "none", stdout |-> <<>>, stderr |-> <<>>]

\* get_pr_diff that records nothing for an empty diff
get_pr_diff_NoWarning(pr, res) ==
  IF res.kind = "ok"
  THEN [diff |-> Strip(res.stdout), errors |-> <<>>]
  ELSE [diff |-> <<>>, errors |-> <<DiffFailedError(pr, res.stderr)>>]

\* the (diff, errors) pair get_pr_diff returns for a command that ran
get_pr_diff(pr, res) ==
  IF res.kind = "ok"
  THEN LET d == Strip(res.stdout)
       IN  [diff |-> d, errors |-> IF d = <<>> THEN <<EmptyDiffError>> ELSE <<>>]
  ELSE [diff |-> <<>>, errors |-> <<DiffFailedError(pr, res.stderr)>>]

\* ------------------------------------------------------------------ get_document_content

NoRefsSentinel == <<"No external references were provided.">>

\* what fetching and extracting one URL can do: yield the extracted text, or
\* raise (requests.get, raise_for_status, fitz.open, BeautifulSoup)
DocOutcomes == {"ok", "raise"}

\* the URLs of the run whose fetch can raise; the others are served
FlakyUrls == {<<"v">>}

\* the text extracted from a fetched document
DocText == <<"spec text">>

\* str(e) of the exception a failed URL raises
DocException == <<"HTTPError">>

ContentBlock(name, content) ==
  <<"--- Start of content from ">> \o name \o <<" ---\n">> \o content
    \o <<"\n--- End of content from ">> \o name \o <<" ---\n\n">>

DocError(url) == <<"Error processing document '">> \o url \o <<"': ">> \o DocException

\* the loop ending at the first URL that raises
RECURSIVE DocLoop_StopOnError(_, _, _, _)
DocLoop_StopOnError(urls, i, outcomes, acc) ==
  IF i > Len(urls) THEN acc
  ELSE IF urls[i] = <<>> THEN DocLoop_StopOnError(urls, i + 1, outcomes, acc)
  ELSE IF outcomes[i] = "ok"
  THEN DocLoop_StopOnError(urls, i + 1, outcomes,
                           [acc EXCEPT !.content = @ \o ContentBlock(urls[i], DocText)])
  ELSE [acc EXCEPT !.errors = Append(@, DocError(urls[i]))]

\* the for loop over urls: entry i is skipped when empty, appended as a block
\* when its processing succeeds, recorded as an error when it raises
RECURSIVE DocLoop(_, _, _, _)
DocLoop(urls, i, outcomes, acc) ==
  IF i > Len(urls) THEN acc
  ELSE IF urls[i] = <<>> THEN DocLoop(urls, i + 1, outcomes, acc)
  ELSE IF outcomes[i] = "ok"
  THEN DocLoop(urls, i + 1, outcomes,
               [acc EXCEPT !.content = @ \o ContentBlock(urls[i], DocText)])
  ELSE DocLoop(urls, i + 1, outcomes,
               [acc EXCEPT !.errors = Append(@, DocError(urls[i]))])

get_document_content(urls_str, outcomes) ==
  IF urls_str = <<>>
  THEN [content |-> NoRefsSentinel, errors |-> <<>>]
  ELSE DocLoop(StripAll(Split(urls_str)), 1, outcomes,
               [content |-> <<>>, errors |-> <<>>])

\* ------------------------------------------------------------------ the file system

\* The tree the run sees: one directory d holding the files a and b; every
\* other name does not exist.  Paths are relative, "/" separates components.
DirEntries == {<<"a">>, <<"b">>}

\* the components of a path, "." and empty components dropped: the file or
\* directory a spelling denotes
RECURSIVE ComponentsFrom(_, _, _)
ComponentsFrom(p, i, cur) ==
  LET keep(c) == IF c = <<>> \/ c = <<".">> THEN <<>> ELSE <<c>>
  IN  IF i > Len(p) THEN keep(cur)
      ELSE IF p[i] = "/" THEN keep(cur) \o ComponentsFrom(p, i + 1, <<>>)
      ELSE ComponentsFrom(p, i + 1, Append(cur, p[i]))

Resolve(p) == ComponentsFrom(p, 1, <<>>)

\* os.path.isdir
IsDir(p) == Resolve(p) = << <<"d">> >>

\* os.path.isfile
IsFile(p) ==
  /\ p # <<>>
  /\ p[Len(p)] # "/"
  /\ \E n \in DirEntries : Resolve(p) = << <<"d">>, n >>

\* os.path.join(root, name)
PathJoin(root, name) ==
  IF root # <<>> /\ root[Len(root)] = "/" THEN root \o name ELSE root \o <<"/">> \o name

\* the orders in which os.walk can list the files of d
WalkOrders == {<< <<"a">>, <<"b">> >>, << <<"b">>, <<"a">> >>}

\* the files os.walk(path) yields, each joined to the root as it was spelled
Walk(path, order) == [i \in 1..Len(order) |-> PathJoin(path, order[i])]

\* code point of a character of a path
Ord(c) ==
  CASE c = " " -> 32 [] c = "." -> 46 [] c = "/" -> 47
    [] c = "a" -> 97 [] c = "b" -> 98 [] c = "d" -> 100 [] c = "x" -> 120

\* str < str: the first differing code point decides, a proper prefix is smaller
RECURSIVE StrLess(_, _)
StrLess(s, t) ==
  IF t = <<>> THEN FALSE
  ELSE IF s = <<>> THEN TRUE
  ELSE IF Head(s) = Head(t) THEN StrLess(Tail(s), Tail(t))
  ELSE Ord(Head(s)) < Ord(Head(t))

\* sorted(list(set(xs)))
RECURSIVE SortedSet(_)
SortedSet(S) ==
  IF S = {} THEN <<>>
  ELSE LET m == CHOOSE x \in S : \A y \in S \ {x} : StrLess(x, y)
       IN  <<m>> \o SortedSet(S \ {m})

Range(xs) == {xs[i] : i \in 1..Len(xs)}

\* ------------------------------------------------------------------ get_repo_files_content

NoFilesSentinel == <<"No ArkLib references were provided.">>

NotFoundError(path) == <<"Could not find file or directory: ">> \o path

\* str(e) of the exception an unreadable file raises
ReadException == <<"UnicodeDecodeError">>

ReadError(file) == <<"Error reading file ">> \o file \o <<": ">> \o ReadException

\* f.read() of a file of the tree
FileText(file) == <<"content of ">> \o Resolve(file)[2]

\* the first loop: directories are walked, files taken, other paths recorded
RECURSIVE ExpandLoop(_, _, _, _)
ExpandLoop(paths, i, order, acc) ==
  IF i > Len(paths) THEN acc
  ELSE IF paths[i] = <<>> THEN ExpandLoop(paths, i + 1, order, acc)
  ELSE IF IsDir(paths[i])
  THEN ExpandLoop(paths, i + 1, order,
                  [acc EXCEPT !.files = @ \o Walk(paths[i], order)])
  ELSE IF IsFile(paths[i])
  THEN ExpandLoop(paths, i + 1, order, [acc EXCEPT !.files = Append(@, paths[i])])
  ELSE ExpandLoop(paths, i + 1, order,
                  [acc EXCEPT !.errors = Append(@, NotFoundError(paths[i]))])

\* unique_files
UniqueFiles(expanded) == SortedSet(Range(expanded))

\* the second loop: each file is read and appended, or its error recorded;
\* unreadable is the set of files of the tree whose read raises
RECURSIVE ReadLoop(_, _, _, _)
ReadLoop(files, i, unreadable, acc) ==
  IF i > Len(files) THEN acc
  ELSE IF Resolve(files[i]) \in unreadable
  THEN ReadLoop(files, i + 1, unreadable,
                [acc EXCEPT !.errors = Append(@, ReadError(files[i]))])
  ELSE ReadLoop(files, i + 1, unreadable,
                [acc EXCEPT !.content = @ \o ContentBlock(files[i], FileText(files[i]))])

get_repo_files_content(paths_str, order, unreadable) ==
  IF paths_str = <<>>
  THEN [content |-> NoFilesSentinel, errors |-> <<>>]
  ELSE LET expanded == ExpandLoop(StripAll(Split(paths_str)), 1, order,
                                  [files |-> <<>>, errors |-> <<>>])
       IN  ReadLoop(UniqueFiles(expanded.files), 1, unreadable,
                    [content |-> <<>>, errors |-> expanded.errors])

\* ------------------------------------------------------------------ analyze_code_with_context

NoKey == [set |-> FALSE, val |-> <<>>]

\* os.getenv("GEMINI_API_KEY"): unset (None), set to the empty string, set
ApiKeys == {NoKey, [set |-> TRUE, val |-> <<>>], [set |-> TRUE, val |-> <<"k">>]}

\* a test for None only
HasKey_NotNone(k) == k.set

\* truth value of the api_key read from the environment
HasKey(k) == k.set /\ k.val # <<>>

MissingKeyError == <<"Error:", " GEMINI_API_KEY environment variable not set.">>

DefaultModel == <<"gemini-3-pro-preview">>

CommentsHeader == "**4. Additional Reviewer Comments:**"

\* the section rendered for any non-empty comments, blank ones included
AdditionalCommentsSection_NoStrip(comments) ==
  IF comments # <<>>
  THEN <<"\n    ", CommentsHeader, "\n    ---\n    ">> \o comments \o <<"\n    ---\n    ">>
  ELSE <<>>

\* additional_comments_section
AdditionalCommentsSection(comments) ==
  IF comments # <<>> /\ Strip(comments) # <<>>
  THEN <<"\n    ", CommentsHeader, "\n    ---\n    ">> \o comments \o <<"\n    ---\n    ">>
  ELSE <<>>

PromptIntro ==
  <<"\n    You are a meticulous senior engineer specializing in formal verification. ",
    "1.  The content of external reference documents, ",
    "2.  The full content of other relevant files from the repository.",
    "3.  The code changes (diff) from the pull request", "\n    ">>

ExternalHeader == <<"\n    ", "**1. External Reference Documents (Specification):**", "\n    ---\n    ">>

RepoHeader ==
  <<"\n    ---\n\n    ", "**2. Additional Repository Context Files:**", "\n    ---\n    ">>

DiffHeader == <<"\n    ---\n\n    ", "**3. Pull Request Diff:**", "\n    ---\n    ">>

Instructions ==
  <<"\n    ---\n\n    ", "**Your Instructions:**",
    "1.  **Summarize Goal:**", "2.  **Identify Specification:**",
    "3.  **Analyze Implementation:**", "4.  **Check for Misformalization:**",
    "5.  **Provide Verdict:**", "6.  **Actionable Feedback:**",
    "Structure your review clearly using markdown for formatting.">>

\* prompt
Prompt(ctx) ==
  PromptIntro \o AdditionalCommentsSection(ctx.additional_comments)
    \o ExternalHeader \o ctx.external_context
    \o RepoHeader \o ctx.repo_context
    \o DiffHeader \o ctx.diff
    \o Instructions

\* what the model call can do: return a response with text, raise in
\* generate_content, or return a response whose .text raises
ModelOutcomes == {"text", "raise", "no_text"}

ResponseText == <<"## Review">>

ModelException == <<"quota exceeded">>

\* what the try block around generate_content returns
GenerateResult(outcome) ==
  IF outcome = "text" THEN ResponseText
  ELSE <<"An error occurred while calling the Gemini API: ">> \o ModelException

\* ------------------------------------------------------------------ main

ErrorsHeader == <<"\n--- Errors Encountered During Context Fetching ---\n">>

AbortHeader == <<"Aborting review: Could not fetch PR diff. Errors:\n">>

\* the condition of the abort branch
AbortGate(d, errs) == errs # <<>> /\ d = <<>>

\* the abort message without the errors
AbortMessage_HeaderOnly(errs) == AbortHeader

AbortMessage(errs) == AbortHeader \o JoinLines(errs)

\* the three lists concatenated in another order
AllErrors_RepoFirst(de, ee, re) == de \o re \o ee

\* all_errors
AllErrors(de, ee, re) == de \o ee \o re

\* repo_context after the error section is appended
MergedRepoContext(repo, all_errors) ==
  IF all_errors # <<>> THEN repo \o ErrorsHeader \o JoinLines(all_errors) ELSE repo

\* ------------------------------------------------------------------ inputs

\* ",".join(entries)
RECURSIVE JoinComma(_)
JoinComma(es) ==
  IF es = <<>> THEN <<>>
  ELSE IF Len(es) = 1 THEN es[1]
  ELSE es[1] \o <<",">> \o JoinComma(Tail(es))

SeqsUpTo(S, n) == UNION {[1..k -> S] : k \in 0..n}

UrlEntries == {<<"u">>, <<" ", "v">>, <<>>}

UrlInputs == {JoinComma(es) : es \in SeqsUpTo(UrlEntries, MaxUrls)}

PathEntries ==
  {<<"d">>, <<".", "/", "d">>, <<" ", "d", "/", "b">>, <<"x", " ">>}

PathInputs == {JoinComma(es) : es \in SeqsUpTo(PathEntries, MaxPaths)}

\* the files of the tree, as Resolve names them
Files == {<< <<"d">>, n >> : n \in DirEntries}

\* the files of the tree that may be unreadable in a run (not valid UTF-8)
FragileFiles == {<< <<"d">>, <<"b">> >>}

CommentInputs == {<<>>, <<" ">>, <<" ", "c", "\n">>}

EmptyContext ==
  [diff |-> <<>>, external_context |-> <<>>, repo_context |-> <<>>,
   additional_comments |-> <<>>, gemini_model |-> <<>>]

\* ------------------------------------------------------------------ state

VARIABLES
  pc,                \* where the run is
  cmd,               \* what the diff command did
  diff, diff_errors,
  urls_str, external_context, external_errors,
  paths_str, repo_context, repo_errors,
  review_context,
  api_key,
  prompt,            \* the prompt handed to generate_content
  review,
  stdout,            \* the messages printed, in order
  calls,             \* the calls made so far, in order
  exception          \* the exception that left main, "none" if none

vars ==
  <<pc, cmd, diff, diff_errors, urls_str, external_context, external_errors,
    paths_str, repo_context, repo_errors, review_context, api_key, prompt,
    review, stdout, calls, exception>>

Init ==
  /\ pc = "diff"
  /\ cmd = NoCmd
  /\ diff = <<>> /\ diff_errors = <<>>
  /\ urls_str = <<>> /\ external_context = <<>> /\ external_errors = <<>>
  /\ paths_str = <<>> /\ repo_context = <<>> /\ repo_errors = <<>>
  /\ review_context = EmptyContext
  /\ api_key = NoKey
  /\ prompt = <<>>
  /\ review = <<>>
  /\ stdout = <<>>
  /\ calls = <<>>
  /\ exception = "none"

\* line 187; an OSError of the command is not caught and leaves main
GetPrDiff ==
  /\ pc = "diff"
  /\ \E res \in CmdResults :
       /\ cmd' = res
       /\ IF res.kind = "oserror"
          THEN /\ pc' = "crashed"
               /\ exception' = "OSError"
               /\ UNCHANGED <<diff, diff_errors>>
          ELSE /\ pc' = "docs"
               /\ diff' = get_pr_diff(PrNumber, res).diff
               /\ diff_errors' = get_pr_diff(PrNumber, res).errors
               /\ UNCHANGED exception
  /\ calls' = Append(calls, "get_pr_diff")
  /\ UNCHANGED <<urls_str, external_context, external_errors, paths_str,
                 repo_context, repo_errors, review_context, api_key, prompt,
                 review, stdout>>

\* line 188
GetDocumentContent ==
  /\ pc = "docs"
  /\ \E u \in UrlInputs, outcomes \in [1..MaxUrls -> DocOutcomes] :
       /\ \A i \in 1..Len(Split(u)) :
            Strip(Split(u)[i]) \notin FlakyUrls => outcomes[i] = "ok"
       /\ urls_str' = u
       /\ external_context' = get_document_content(u, outcomes).content
       /\ external_errors' = get_document_content(u, outcomes).errors
  /\ calls' = Append(calls, "get_document_content")
  /\ pc' = "repo"
  /\ UNCHANGED <<cmd, diff, diff_errors, paths_str, repo_context, repo_errors,
                 review_context, api_key, prompt, review, stdout, exception>>

\* line 189
GetRepoFilesContent ==
  /\ pc = "repo"
  /\ \E p \in PathInputs, order \in WalkOrders, unreadable \in SUBSET FragileFiles :
       /\ paths_str' = p
       /\ repo_context' = get_repo_files_content(p, order, unreadable).content
       /\ repo_errors' = get_repo_files_content(p, order, unreadable).errors
  /\ calls' = Append(calls, "get_repo_files_content")
  /\ pc' = "gate"
  /\ UNCHANGED <<cmd, diff, diff_errors, urls_str, external_context,
                 external_errors, review_context, api_key, prompt, review,
                 stdout, exception>>

\* the abort branch without its return
Abort_NoReturn ==
  /\ pc = "gate"
  /\ AbortGate(diff, diff_errors)
  /\ stdout' = Append(stdout, AbortMessage(diff_errors))
  /\ calls' = Append(calls, "analyze_code_with_context")
  /\ pc' = "getenv"
  /\ UNCHANGED <<cmd, diff, diff_errors, urls_str, external_context,
                 external_errors, paths_str, repo_context, repo_errors,
                 review_context, api_key, prompt, review, exception>>

\* lines 192-196
Abort ==
  /\ pc = "gate"
  /\ AbortGate(diff, diff_errors)
  /\ stdout' = Append(stdout, AbortMessage(diff_errors))
  /\ pc' = "aborted"
  /\ UNCHANGED <<cmd, diff, diff_errors, urls_str, external_context,
                 external_errors, paths_str, repo_context, repo_errors,
                 review_context, api_key, prompt, review, calls, exception>>

\* lines 200-214, up to the call of analyze_code_with_context
MergeErrors ==
  /\ pc = "gate"
  /\ ~AbortGate(diff, diff_errors)
  /\ repo_context' =
       MergedRepoContext(repo_context, AllErrors(diff_errors, external_errors, repo_errors))
  /\ \E c \in CommentInputs :
       review_context' =
         [diff |-> diff, external_context |-> external_context,
          repo_context |-> repo_context', additional_comments |-> c,
          gemini_model |-> DefaultModel]
  /\ calls' = Append(calls, "analyze_code_with_context")
  /\ pc' = "getenv"
  /\ UNCHANGED <<cmd, diff, diff_errors, urls_str, external_context,
                 external_errors, paths_str, repo_errors, api_key, prompt,
                 review, stdout, exception>>

\* lines 117-120
GetEnv ==
  /\ pc = "getenv"
  /\ \E k \in ApiKeys :
       /\ api_key' = k
       /\ IF HasKey(k)
          THEN pc' = "configure" /\ UNCHANGED review
          ELSE pc' = "print" /\ review' = MissingKeyError
  /\ UNCHANGED <<cmd, diff, diff_errors, urls_str, external_context,
                 external_errors, paths_str, repo_context, repo_errors,
                 review_context, prompt, stdout, calls, exception>>

\* line 124, outside the try block: an exception leaves the function and main
Configure ==
  /\ pc = "configure"
  /\ calls' = Append(calls, "genai.configure")
  /\ \E raised \in BOOLEAN :
       IF raised THEN pc' = "crashed" /\ exception' = "genai.configure"
       ELSE pc' = "construct" /\ UNCHANGED exception
  /\ UNCHANGED <<cmd, diff, diff_errors, urls_str, external_context,
                 external_errors, paths_str, repo_context, repo_errors,
                 review_context, api_key, prompt, review, stdout>>

\* line 125, outside the try block
Construct ==
  /\ pc = "construct"
  /\ calls' = Append(calls, "genai.GenerativeModel")
  /\ \E raised \in BOOLEAN :
       IF raised THEN pc' = "crashed" /\ exception' = "genai.GenerativeModel"
       ELSE pc' = "prompt" /\ UNCHANGED exception
  /\ UNCHANGED <<cmd, diff, diff_errors, urls_str, external_context,
                 external_errors, paths_str, repo_context, repo_errors,
                 review_context, api_key, prompt, review, stdout>>

\* lines 127-168
BuildPrompt ==
  /\ pc = "prompt"
  /\ prompt' = Prompt(review_context)
  /\ pc' = "generate"
  /\ UNCHANGED <<cmd, diff, diff_errors, urls_str, external_context,
                 external_errors, paths_str, repo_context, repo_errors,
                 review_context, api_key, review, stdout, calls, exception>>

\* the model call without its try block
GenerateContent_NoTry ==
  /\ pc = "generate"
  /\ calls' = Append(calls, "generate_content")
  /\ \E outcome \in ModelOutcomes :
       IF outcome = "text"
       THEN pc' = "print" /\ review' = ResponseText /\ UNCHANGED exception
       ELSE pc' = "crashed" /\ exception' = "generate_content" /\ UNCHANGED review
  /\ UNCHANGED <<cmd, diff, diff_errors, urls_str, external_context,
                 external_errors, paths_str, repo_context, repo_errors,
                 review_context, api_key, prompt, stdout>>

\* lines 169-176
GenerateContent ==
  /\ pc = "generate"
  /\ calls' = Append(calls, "generate_content")
  /\ \E outcome \in ModelOutcomes : review' = GenerateResult(outcome)
  /\ pc' = "print"
  /\ UNCHANGED <<cmd, diff, diff_errors, urls_str, external_context,
                 external_errors, paths_str, repo_context, repo_errors,
                 review_context, api_key, prompt, stdout, exception>>

\* line 215
PrintReview ==
  /\ pc = "print"
  /\ stdout' = Append(stdout, review)
  /\ pc' = "done"
  /\ UNCHANGED <<cmd, diff, diff_errors, urls_str, external_context,
                 external_errors, paths_str, repo_context, repo_errors,
                 review_context, api_key, prompt, review, calls, exception>>

Next ==
  \/ GetPrDiff
  \/ GetDocumentContent
  \/ GetRepoFilesContent
  \/ Abort
  \/ MergeErrors
  \/ GetEnv
  \/ Configure
  \/ Construct
  \/ BuildPrompt
  \/ GenerateContent
  \/ PrintReview

Spec == Init /\ [][Next]_vars

\* ------------------------------------------------------------------ properties

Called(name) == name \in Range(calls)

\* the diff command ran and exited non-zero
DiffCommandFailed == cmd.kind = "nonzero"

\* the diff command exited zero with empty or whitespace-only output
DiffCommandEmpty == cmd.kind = "ok" /\ \A i \in 1..Len(cmd.stdout) : IsSpace(cmd.stdout[i])

\* C1: in a run whose diff command fails, the model is never invoked, the run
\* can only go on to the abort, and the one message it prints is the abort
\* message and contains the command's captured stderr.
C1_DiffFailureAborts ==
  DiffCommandFailed =>
    /\ pc \in {"docs", "repo", "gate", "aborted"}
    /\ ~Called("analyze_code_with_context")
    /\ ~Called("generate_content")
    /\ pc = "gate" => AbortGate(diff, diff_errors)
    /\ pc = "aborted" =>
         /\ Len(stdout) = 1
         /\ StartsWith(stdout[1], AbortHeader)
         /\ Contains(stdout[1], cmd.stderr)
    /\ pc # "aborted" => stdout = <<>>

C1_Witness ==
  /\ pc = "aborted"
  /\ DiffCommandFailed
  /\ cmd.stderr # <<>>
  /\ Contains(stdout[1], cmd.stderr)

\* C2 as stated: a run whose diff command succeeds with empty output does not
\* abort.
C2_EmptyDiffProceeds == DiffCommandEmpty => pc # "aborted"

\* C2 amended: a successful empty diff comes back as the empty diff with the
\* one explanatory error entry, the two-part gate then holds, the run aborts
\* with that entry in its message and the model is never invoked; on every
\* pair get_pr_diff returns, the gate is the same as "the diff is empty".
C2_EmptyDiffAborts ==
  /\ DiffCommandEmpty =>
       /\ diff = <<>>
       /\ diff_errors = <<EmptyDiffError>>
       /\ pc \in {"docs", "repo", "gate", "aborted"}
       /\ pc = "gate" => AbortGate(diff, diff_errors)
       /\ ~Called("analyze_code_with_context")
       /\ pc = "aborted" => stdout = <<AbortHeader \o EmptyDiffError>>
  /\ cmd.kind \in {"ok", "nonzero"} => (AbortGate(diff, diff_errors) <=> diff = <<>>)

C2_Witness ==
  /\ DiffCommandEmpty
  /\ cmd.stdout # <<>>
  /\ pc = "aborted"
  /\ Contains(stdout[1], EmptyDiffError)

\* the credential read by GetEnv is None or the empty string
KeyMissing == ~api_key.set \/ api_key.val = <<>>

\* C5: when the credential is unset or empty, analyze_code_with_context
\* returns a string beginning with "Error:" and neither genai.configure nor
\* GenerativeModel nor generate_content is called; the later steps of the
\* function are reached only with a credential.
C5_MissingKeyNoNetwork ==
  /\ (Called("analyze_code_with_context") /\ pc # "getenv" /\ KeyMissing) =>
       /\ pc \in {"print", "done"}
       /\ StartsWith(review, <<"Error:">>)
       /\ ~Called("genai.configure")
       /\ ~Called("genai.GenerativeModel")
       /\ ~Called("generate_content")
       /\ prompt = <<>>
  /\ pc \in {"configure", "construct", "prompt", "generate"} => ~KeyMissing

C5_Witness ==
  /\ pc = "done"
  /\ api_key.set /\ api_key.val = <<>>
  /\ review_context.repo_context # <<>>
  /\ stdout = <<MissingKeyError>>

\* the order in which a run makes its calls
CallOrder ==
  <<"get_pr_diff", "get_document_content", "get_repo_files_content",
    "analyze_code_with_context", "genai.configure", "genai.GenerativeModel",
    "generate_content">>

\* C10: the calls of a run are a prefix of the fixed order, so the model is
\* invoked at most once and after the three fetchers; the abort decision is
\* taken with all three fetchers done, also when the diff fetch failed; a run
\* prints nothing before it ends and exactly one message when it ends, the
\* abort message or the review, never both.
C10_FixedStageOrder ==
  /\ Len(calls) <= Len(CallOrder)
  /\ calls = SubSeq(CallOrder, 1, Len(calls))
  /\ pc \notin {"diff", "docs", "repo", "crashed"} =>
       SubSeq(calls, 1, 3) = SubSeq(CallOrder, 1, 3)
  /\ pc = "gate" => Len(calls) = 3
  /\ pc = "aborted" =>
       /\ Len(calls) = 3
       /\ Len(stdout) = 1
       /\ StartsWith(stdout[1], AbortHeader)
  /\ pc = "done" =>
       /\ Called("analyze_code_with_context")
       /\ stdout = <<review>>
       /\ ~StartsWith(review, AbortHeader)
  /\ pc \notin {"aborted", "done"} => stdout = <<>>

C10_Witness ==
  /\ pc = "aborted"
  /\ DiffCommandFailed
  /\ calls = SubSeq(CallOrder, 1, 3)
  /\ urls_str # <<>>
  /\ paths_str # <<>>

\* the items occur in the text one after another, from position i on
RECURSIVE InOrderFrom(_, _, _)
InOrderFrom(text, items, i) ==
  IF items = <<>> THEN TRUE
  ELSE \E j \in i..(Len(text) + 1) :
         /\ j + Len(Head(items)) - 1 <= Len(text)
         /\ Head(items) = <<>> \/ text[j] = Head(items)[1]
         /\ SubSeq(text, j, j + Len(Head(items)) - 1) = Head(items)
         /\ InOrderFrom(text, Tail(items), j + Len(Head(items)))

\* C3: the step from the abort decision to the model call hands over diff and
\* external_context as fetched and a repo_context that begins with the fetched
\* repository text; with no error recorded nothing follows it, otherwise the
\* errors header follows and after it every diff, document and repository
\* error, in that order.  The prompt built from the context contains the three
\* texts, and the context is not changed after it is built.
C3_ErrorsReachModel ==
  [][ /\ (pc = "gate" /\ pc' = "getenv") =>
           LET all == diff_errors \o external_errors \o repo_errors
               rc  == review_context'.repo_context
               rest == SubSeq(rc, Len(repo_context) + 1, Len(rc))
           IN  /\ review_context'.diff = diff
               /\ review_context'.external_context = external_context
               /\ StartsWith(rc, repo_context)
               /\ IF all = <<>> THEN rest = <<>>
                  ELSE /\ StartsWith(rest, ErrorsHeader)
                       /\ InOrderFrom(rest, all, Len(ErrorsHeader) + 1)
      /\ (pc = "prompt" /\ pc' = "generate") =>
           /\ Contains(prompt', review_context.repo_context)
           /\ Contains(prompt', review_context.external_context)
           /\ Contains(prompt', review_context.diff)
      /\ pc \notin {"diff", "docs", "repo", "gate"} => review_context' = review_context
    ]_vars

C3_Witness ==
  /\ pc = "print"
  /\ Called("generate_content")
  /\ external_errors # <<>>
  /\ Len(repo_errors) = 2
  /\ Contains(prompt, ErrorsHeader \o JoinLines(external_errors \o repo_errors))

\* C4 as stated: when a run has ended, every error a fetcher recorded is in
\* the prompt that was sent to the model or in a printed message.
C4_AllFailuresPrinted ==
  pc \in {"done", "aborted"} =>
    \A e \in Range(diff_errors \o external_errors \o repo_errors) :
      \/ Called("generate_content") /\ Contains(prompt, e)
      \/ \E i \in 1..Len(stdout) : Contains(stdout[i], e)

\* C4 amended: an aborting run prints every diff error; a run that reaches
\* generate_content has every fetcher error in the prompt it sends; a missing
\* credential and an exception caught around generate_content are the message
\* printed.  (Document and repository errors of a run that aborts, or that
\* finds no credential, are in no printed message.)
C4_FailuresPrintedAmended ==
  /\ pc = "aborted" =>
       \A e \in Range(diff_errors) : Contains(stdout[1], e)
  /\ Called("generate_content") =>
       \A e \in Range(diff_errors \o external_errors \o repo_errors) : Contains(prompt, e)
  /\ (pc = "done" /\ KeyMissing) => stdout = <<MissingKeyError>>
  /\ (pc = "done" /\ Called("generate_content") /\ review # ResponseText) =>
       Contains(stdout[1], ModelException)

C4_Witness ==
  /\ pc = "aborted"
  /\ DiffCommandFailed
  /\ external_errors # <<>>
  /\ repo_errors # <<>>
  /\ Contains(stdout[1], diff_errors[1])
  /\ ~Contains(stdout[1], external_errors[1])

\* C6 as stated: no exception leaves analyze_code_with_context.
C6_NeverRaises == Called("analyze_code_with_context") => exception = "none"

\* C6 amended: once generate_content is called the function returns a
\* non-empty string, the response text or the formatted error string, and no
\* exception leaves it; the only exceptions that leave the function are those
\* of genai.configure and genai.GenerativeModel, raised before the try block.
C6_TryBlockCatches ==
  /\ Called("generate_content") =>
       /\ exception = "none"
       /\ pc \in {"print", "done"}
       /\ review # <<>>
       /\ \/ review = ResponseText
          \/ /\ StartsWith(review, <<"An error occurred while calling the Gemini API: ">>)
             /\ Contains(review, ModelException)
  /\ (Called("analyze_code_with_context") /\ exception # "none") =>
       /\ exception \in {"genai.configure", "genai.GenerativeModel"}
       /\ calls[Len(calls)] = exception
       /\ pc = "crashed"

C6_Witness ==
  /\ pc = "done"
  /\ Called("generate_content")
  /\ Contains(stdout[1], ModelException)

StartMarker == "--- Start of content from "

\* the names the blocks of an aggregate are tagged with, in order
RECURSIVE TagsFrom(_, _)
TagsFrom(text, i) ==
  IF i > Len(text) THEN <<>>
  ELSE IF text[i] = StartMarker
  THEN LET j == CHOOSE j \in (i + 1)..Len(text) :
                  /\ text[j] = " ---\n"
                  /\ \A k \in (i + 1)..(j - 1) : text[k] # " ---\n"
       IN  <<SubSeq(text, i + 1, j - 1)>> \o TagsFrom(text, j + 1)
  ELSE TagsFrom(text, i + 1)

Tags(text) == TagsFrom(text, 1)

\* the files the entries of a path input denote
InputFiles(str) ==
  LET paths == StripAll(Split(str))
  IN  UNION {IF paths[i] = <<>> THEN {}
             ELSE IF IsDir(paths[i]) THEN Files
             ELSE IF IsFile(paths[i]) THEN {Resolve(paths[i])}
             ELSE {} : i \in 1..Len(paths)}

\* a read error was recorded for the file
ReadFailed(f) ==
  \E i \in 1..Len(repo_errors) :
    /\ repo_errors[i][1] = "Error reading file "
    /\ \E t \in 1..Len(repo_errors[i]) :
         /\ repo_errors[i][t] = ": "
         /\ Resolve(SubSeq(repo_errors[i], 2, t - 1)) = f

\* C7 as stated: each file the input paths denote, when it can be read, has
\* exactly one block in the aggregate, and the blocks are in sorted path order.
C7_EachFileOnce ==
  Called("get_repo_files_content") =>
    LET tags == Tags(repo_context)
    IN  /\ \A f \in InputFiles(paths_str) :
             ~ReadFailed(f) =>
               Cardinality({i \in 1..Len(tags) : Resolve(tags[i]) = f}) = 1
        /\ \A i \in 1..Len(tags), j \in 1..Len(tags) :
             i < j => StrLess(tags[i], tags[j])

\* the elements of xs at the positions where pick is b
RECURSIVE SelectFrom(_, _, _, _)
SelectFrom(xs, pick, b, i) ==
  IF i > Len(xs) THEN <<>>
  ELSE IF pick[i] = b THEN <<xs[i]>> \o SelectFrom(xs, pick, b, i + 1)
  ELSE SelectFrom(xs, pick, b, i + 1)

\* the non-empty trimmed URLs of the input, in input order
InputUrls == NonEmpty(StripAll(Split(urls_str)))

\* C8: when get_document_content returns, the non-empty trimmed URLs split,
\* in input order, into those with a block tagged with the URL in the
\* aggregate and those with an error entry naming the URL: every URL has
\* exactly one of the two, whatever happened to the URLs before it, and
\* blocks plus errors equals the number of URLs.
C8_PerUrlBlockOrError ==
  pc = "repo" =>
    LET tags == Tags(external_context)
        n == Len(InputUrls)
    IN  /\ Len(tags) + Len(external_errors) = n
        /\ Len(external_errors) <= n
        /\ \E pick \in [1..n -> BOOLEAN] :
             /\ tags = SelectFrom(InputUrls, pick, TRUE, 1)
             /\ LET failed == SelectFrom(InputUrls, pick, FALSE, 1)
                IN  /\ Len(failed) = Len(external_errors)
                    /\ \A i \in 1..Len(failed) :
                         StartsWith(external_errors[i],
                                    <<"Error processing document '">> \o failed[i] \o <<"': ">>)

C8_Witness ==
  /\ pc = "repo"
  /\ Len(InputUrls) = 2
  /\ InputUrls[1] # InputUrls[2]
  /\ Len(external_errors) = 1
  /\ Contains(external_errors[1], InputUrls[1])
  /\ Tags(external_context) = <<InputUrls[2]>>

\* the prompt holds the Additional Reviewer Comments section
HasCommentsSection == CommentsHeader \in Range(prompt)

\* the prompt with the given text between the intro and the first section
PromptAround(middle) ==
  PromptIntro \o middle
    \o ExternalHeader \o review_context.external_context
    \o RepoHeader \o review_context.repo_context
    \o DiffHeader \o review_context.diff
    \o Instructions

\* C9: the assembled prompt holds the comments section exactly when the
\* comments are non-empty after trimming; without it the prompt is the intro,
\* the three context sections and the instructions, and with it the section
\* with the comments stands between the intro and the same remainder.
C9_CommentsSectionIffNonBlank ==
  pc \in {"generate", "print", "done"} /\ ~KeyMissing =>
    LET c == review_context.additional_comments
        blank == \A i \in 1..Len(c) : IsSpace(c[i])
    IN  /\ HasCommentsSection <=> ~blank
        /\ blank => prompt = PromptAround(<<>>)
        /\ ~blank =>
             prompt = PromptAround(<<"\n    ", CommentsHeader, "\n    ---\n    ">> \o c
                                     \o <<"\n    ---\n    ">>)
        /\ \A k \in 1..Len(Instructions) : Instructions[k] \in Range(prompt)

C9_Witness ==
  /\ pc = "generate"
  /\ review_context.additional_comments = <<" ">>
  /\ ~HasCommentsSection
  /\ prompt = PromptAround(<<>>)

====
